---- MODULE Spec2Model ----
(***************************************************************************)
(* The video-analysis request lifecycle of the AI-Video-Interpreter        *)
(* frontend: the App component (frontend/src/App.jsx) with its uploader    *)
(* and buttons, the transport client analyzeVideoFile, and the             *)
(* useVideoAnalysis hook (frontend/src/hooks/useVideoAnalysis.jsx).        *)
(*                                                                         *)
(* Every handler runs to its first await (or to its end) in one step, as   *)
(* JavaScript's run-to-completion does; the continuation after an await is *)
(* a step of its own.  React re-renders between two user events, so a      *)
(* handler always reads the state of the latest render.                    *)
(*                                                                         *)
(* App keeps its own state and does not use the hook, so the two are two   *)
(* controllers; a session mounts one of them (mounted).  Spec takes App as *)
(* it is rendered, its buttons enabled or disabled; SpecHandlers also      *)
(* calls App's handlers directly.  The hook has no caller in the           *)
(* repository: analyzeVideo is called with any arguments at any time.      *)
(***************************************************************************)
EXTENDS Integers, Sequences, FiniteSets, TLC

VARIABLES
  mounted,          \* which controller this session mounts: "App" or "Hook"
  \* ---- App.jsx, useState lines 11-16
  selectedFile, analysisType, results, loading, error, analysisOptions,
  optionsFetch,     \* fetchAnalysisOptions: "pending" until its await settles
  appCalls,         \* handleAnalyze invocations suspended at line 52
  \* ---- useVideoAnalysis.jsx, useState lines 5-7
  isAnalyzing, result, progress,
  toast,            \* the toast raised last (react-hot-toast)
  hookCalls,        \* analyzeVideo invocations: position, payload, timer
  lastEvent         \* the App handler or continuation that ran last

appVars  == <<selectedFile, analysisType, results, loading, error,
              analysisOptions, optionsFetch, appCalls>>
hookVars == <<isAnalyzing, result, progress, toast, hookCalls>>
vars     == <<mounted, appVars, hookVars, lastEvent>>

(***************************************************************************)
(* Bounds of the model.                                                    *)
(***************************************************************************)
\* invocations of one controller that may be suspended at the same time
MaxCalls == 2

Slots == 1..MaxCalls

(***************************************************************************)
(* Values.                                                                 *)
(***************************************************************************)
\* JavaScript null, for a file name or an error message
NoFile  == "null"
NoError == "null"
\* JavaScript null, for a result object
Null    == [null |-> TRUE]

Files      == {"clip.mp4", "talk.mov"}
\* keys of the catalog GET /analysis-options returns
OptionKeys == {"detailed_summary", "quiz_generation"}
\* detail texts of non-success HTTP answers
Details    == {"model unavailable"}
\* an absent property of a response body (JavaScript undefined)
Absent     == "undefined"

\* a JavaScript string used as a condition
Truthy(s) == s # Absent /\ s # ""

(***************************************************************************)
(* The backend, seen from the client.                                      *)
(***************************************************************************)
\* POST /analyze-video-file answers a request for (file, type)
AnalysisOf(file, type) ==
  [result |-> [file |-> file, type |-> type], analysis_description |-> type]

\* how an axios call can end: 2xx, non-2xx with or without a detail, no response
AxiosOutcomes ==
  {[kind |-> "ok", detail |-> Absent], [kind |-> "network", detail |-> Absent]}
    \cup {[kind |-> "http", detail |-> d] : d \in Details \cup {Absent}}

(***************************************************************************)
(* services/api.js: analyzeVideoFile, lines 101-117.                       *)
(***************************************************************************)
\* error.response?.data?.detail || 'Failed to analyze video'
analyzeVideoFileMessage(outcome) ==
  IF Truthy(outcome.detail) THEN outcome.detail ELSE "Failed to analyze video"

(***************************************************************************)
(* App.jsx                                                                 *)
(***************************************************************************)
IdleCall == [pc |-> "idle"]

AppPending == {i \in Slots : appCalls[i].pc = "await"}
AppFree    == {i \in Slots : appCalls[i].pc = "idle"}

\* lines 22-29, the await of line 24 fulfilled
FetchOptionsResolves ==
  /\ mounted = "App" /\ optionsFetch = "pending"
  /\ \E catalog \in SUBSET OptionKeys :
       analysisOptions' = catalog
  /\ optionsFetch' = "done"
  /\ lastEvent' = [op |-> "fetchAnalysisOptions", ok |-> TRUE]
  /\ UNCHANGED <<mounted, selectedFile, analysisType, results, loading, error,
                 appCalls, hookVars>>

\* lines 22-29, the await of line 24 rejected
FetchOptionsRejects ==
  /\ mounted = "App" /\ optionsFetch = "pending"
  /\ error' = "Failed to fetch analysis options"
  /\ optionsFetch' = "done"
  /\ lastEvent' = [op |-> "fetchAnalysisOptions", ok |-> FALSE]
  /\ UNCHANGED <<mounted, selectedFile, analysisType, results, loading,
                 analysisOptions, appCalls, hookVars>>

\* handleFileSelect that keeps the stale output
handleFileSelect_keepsOutput(file) ==
  /\ selectedFile' = file
  /\ UNCHANGED <<results, error>>

\* lines 31-35
handleFileSelect(file) ==
  /\ selectedFile' = file
  /\ results' = Null
  /\ error' = NoError

\* lines 37-39
handleAnalysisTypeChange(type) ==
  analysisType' = type

\* line 42
AnalyzeInputMissing == selectedFile = NoFile \/ analysisType = ""

\* handleAnalyze that keeps the previous result while the new request runs
handleAnalyzeStart_keepsResults(i) ==
  /\ loading' = TRUE
  /\ error' = NoError
  /\ results' = results
  /\ appCalls' = [appCalls EXCEPT
                    ![i] = [pc |-> "await", file |-> selectedFile,
                            type |-> analysisType]]

\* lines 47-52, up to the await
handleAnalyzeStart(i) ==
  /\ loading' = TRUE
  /\ error' = NoError
  /\ results' = Null
  /\ appCalls' = [appCalls EXCEPT
                    ![i] = [pc |-> "await", file |-> selectedFile,
                            type |-> analysisType]]

\* lines 41-52
handleAnalyze ==
  IF AnalyzeInputMissing
    THEN /\ error' = "Please select a video file and analysis type"
         /\ lastEvent' = [op |-> "handleAnalyze", issued |-> FALSE]
         /\ UNCHANGED <<results, loading, appCalls>>
    ELSE /\ AppFree # {}
         /\ handleAnalyzeStart(CHOOSE i \in AppFree : \A j \in AppFree : i <= j)
         /\ lastEvent' = [op |-> "handleAnalyze", issued |-> TRUE]

\* lines 53-58, the continuation of call i after its await
handleAnalyzeSettled(i, outcome) ==
  /\ IF outcome.kind = "ok"
       THEN /\ results' = AnalysisOf(appCalls[i].file, appCalls[i].type)
            /\ error' = error
       ELSE /\ error' = IF Truthy(analyzeVideoFileMessage(outcome))
                          THEN analyzeVideoFileMessage(outcome)
                          ELSE "Analysis failed. Please try again."
            /\ results' = results
  /\ loading' = FALSE
  /\ appCalls' = [appCalls EXCEPT ![i] = IdleCall]

\* lines 61-66
handleReset ==
  /\ selectedFile' = NoFile
  /\ analysisType' = ""
  /\ results' = Null
  /\ error' = NoError

\* line 106, the Analyze button
AnalyzeEnabled == selectedFile # NoFile /\ analysisType # "" /\ ~loading
\* line 114, the Reset button
ResetEnabled == ~loading

(***************************************************************************)
(* The events of the mounted App.                                          *)
(***************************************************************************)
\* what lastEvent keeps of a call of handleFileSelect: its argument, the file
\* it replaced, and whether a result or an error was on display
SelectEvent(file) ==
  [op |-> "handleFileSelect", file |-> file, replaced |-> selectedFile,
   stale |-> (results # Null \/ error # NoError)]

\* VideoUploader.jsx lines 6-10; the drop zone is rendered while no file is
\* selected (line 34)
onDrop ==
  /\ mounted = "App" /\ selectedFile = NoFile
  /\ \E acceptedFiles \in {<<>>} \cup {<<f>> : f \in Files} :
       IF Len(acceptedFiles) > 0
         THEN /\ handleFileSelect(acceptedFiles[1])
              /\ lastEvent' = SelectEvent(acceptedFiles[1])
         ELSE /\ lastEvent' = [op |-> "onDrop"]
              /\ UNCHANGED <<selectedFile, results, error>>
  /\ UNCHANGED <<mounted, analysisType, loading, analysisOptions, optionsFetch,
                 appCalls, hookVars>>

\* VideoUploader.jsx lines 20-22; the X button is rendered while a file is
\* selected (lines 58-76)
removeFile ==
  /\ mounted = "App" /\ selectedFile # NoFile
  /\ handleFileSelect(NoFile)
  /\ lastEvent' = SelectEvent(NoFile)
  /\ UNCHANGED <<mounted, analysisType, loading, analysisOptions, optionsFetch,
                 appCalls, hookVars>>

\* AnalysisOptions.jsx lines 15-30: one radio button per key of the catalog
onTypeChange ==
  /\ mounted = "App"
  /\ \E key \in analysisOptions : handleAnalysisTypeChange(key)
  /\ lastEvent' = [op |-> "handleAnalysisTypeChange"]
  /\ UNCHANGED <<mounted, selectedFile, results, loading, error,
                 analysisOptions, optionsFetch, appCalls, hookVars>>

\* App.jsx lines 104-110
ClickAnalyze ==
  /\ mounted = "App" /\ AnalyzeEnabled
  /\ handleAnalyze
  /\ UNCHANGED <<mounted, selectedFile, analysisType, analysisOptions,
                 optionsFetch, hookVars>>

\* App.jsx lines 111-117
ClickReset ==
  /\ mounted = "App" /\ ResetEnabled
  /\ handleReset
  /\ lastEvent' = [op |-> "handleReset", pending |-> AppPending # {}]
  /\ UNCHANGED <<mounted, loading, analysisOptions, optionsFetch, appCalls,
                 hookVars>>

\* App.jsx line 52: the awaited analyzeVideoFile settles
AnalyzeSettles ==
  /\ mounted = "App"
  /\ \E i \in AppPending, outcome \in AxiosOutcomes :
       /\ handleAnalyzeSettled(i, outcome)
       /\ lastEvent' = [op |-> "settled", file |-> appCalls[i].file,
                        type |-> appCalls[i].type, outcome |-> outcome]
  /\ UNCHANGED <<mounted, selectedFile, analysisType, analysisOptions,
                 optionsFetch, hookVars>>

(***************************************************************************)
(* The handlers of App called directly, whatever the buttons show: the     *)
(* controller's contract (select, submit, reset) from any state.           *)
(***************************************************************************)
CallHandleFileSelect ==
  /\ mounted = "App"
  /\ \E file \in Files \cup {NoFile} :
       /\ handleFileSelect(file)
       /\ lastEvent' = SelectEvent(file)
  /\ UNCHANGED <<mounted, analysisType, loading, analysisOptions, optionsFetch,
                 appCalls, hookVars>>

CallHandleAnalysisTypeChange ==
  /\ mounted = "App"
  /\ \E key \in OptionKeys : handleAnalysisTypeChange(key)
  /\ lastEvent' = [op |-> "handleAnalysisTypeChange"]
  /\ UNCHANGED <<mounted, selectedFile, results, loading, error,
                 analysisOptions, optionsFetch, appCalls, hookVars>>

CallHandleAnalyze ==
  /\ mounted = "App"
  /\ handleAnalyze
  /\ UNCHANGED <<mounted, selectedFile, analysisType, analysisOptions,
                 optionsFetch, hookVars>>

CallHandleReset ==
  /\ mounted = "App"
  /\ handleReset
  /\ lastEvent' = [op |-> "handleReset", pending |-> AppPending # {}]
  /\ UNCHANGED <<mounted, loading, analysisOptions, optionsFetch, appCalls,
                 hookVars>>

(***************************************************************************)
(* hooks/useVideoAnalysis.jsx                                              *)
(***************************************************************************)
\* line 36: the simulated progress stops at this value
ProgressCap == 90
\* line 50: the value progress snaps to when fetch resolves
ProgressDone == 100
\* line 40: Math.random() * 10, a value of [0, 10), here a whole number
Increments == {0, 8}

\* a customPrompt argument: undefined, or a string as its characters
Undefined == [present |-> FALSE, text |-> <<>>]
Str(chars) == [present |-> TRUE, text |-> chars]
Prompts == {Undefined, Str(<<>>), Str(<<" ", "\n">>), Str(<<" ", "a", " ">>)}
\* the file arguments a caller passes
HookFiles == {"clip.mp4"}
\* the analysisType arguments a caller passes
HookTypes == {"", "custom", "detailed_summary"}

Whitespace == {" ", "\n", "\t"}

RECURSIVE TrimStart(_)
TrimStart(s) ==
  IF s # <<>> /\ Head(s) \in Whitespace THEN TrimStart(Tail(s)) ELSE s

RECURSIVE TrimEnd(_)
TrimEnd(s) ==
  IF s # <<>> /\ s[Len(s)] \in Whitespace
    THEN TrimEnd(SubSeq(s, 1, Len(s) - 1)) ELSE s

\* String.prototype.trim
Trim(s) == TrimEnd(TrimStart(s))

\* the prompt check without the trim
CustomPromptMissing_noTrim(customPrompt) ==
  ~customPrompt.present \/ customPrompt.text = <<>>

\* line 15: !customPrompt?.trim()
CustomPromptMissing(customPrompt) ==
  ~customPrompt.present \/ Trim(customPrompt.text) = <<>>

\* lines 24-30
FormData(file, type, customPrompt) ==
  [video_file |-> file, analysis_type |-> type,
   custom_prompt |-> IF type = "custom" THEN customPrompt ELSE Undefined]

NoForm == FormData(NoFile, "", Undefined)

\* an analyzeVideo invocation: where it stands, what it sent, and whether the
\* interval timer it started (line 34) is still set
HookCall(pc, formData, interval) ==
  [pc |-> pc, formData |-> formData, interval |-> interval]

HookIdle == HookCall("idle", NoForm, FALSE)

\* invocations whose outbound call has not settled (lines 44-52)
HookPending == {i \in Slots : hookCalls[i].pc \in {"fetch", "json"}}
\* slots no invocation, timer or timeout of an earlier invocation holds
HookFree == {i \in Slots : hookCalls[i].pc = "idle" /\ ~hookCalls[i].interval}

\* the JSON bodies POST /analyze-video answers with; a property the body
\* lacks is Absent, and success is the JSON literal
Data(success, message, detail, text) ==
  [success |-> success, error |-> message, detail |-> detail, result |-> text]

HookBodies ==
  {[decodable |-> FALSE, data |-> Data(Absent, Absent, Absent, Absent)],
   [decodable |-> TRUE, data |-> Data("true", Absent, Absent, "analysis text")],
   [decodable |-> TRUE, data |-> Data("false", "quota exceeded", Absent, Absent)],
   [decodable |-> TRUE, data |-> Data("false", Absent, Absent, Absent)]}
    \cup {[decodable |-> TRUE, data |-> Data(Absent, Absent, d, Absent)] :
            d \in Details}

\* lines 64-68
NetworkErrorResult(type) ==
  [success |-> "false", error |-> "Network error occurred",
   analysis_type |-> type]

Toast(level, message) == [level |-> level, message |-> message]

\* lines 10-18: the message of the validation that fails, Absent when none does
HookValidation(file, type, customPrompt) ==
  IF file = NoFile THEN "Please select a video file first"
  ELSE IF type = "custom" /\ CustomPromptMissing(customPrompt)
    THEN "Please enter a custom prompt for analysis"
  ELSE Absent

\* lines 9-44, up to the await of fetch
analyzeVideo(file, type, customPrompt) ==
  IF HookValidation(file, type, customPrompt) # Absent
    THEN /\ toast' = Toast("error", HookValidation(file, type, customPrompt))
         /\ UNCHANGED <<isAnalyzing, result, progress, hookCalls>>
    ELSE /\ HookFree # {}
         /\ isAnalyzing' = TRUE
         /\ progress' = 0
         /\ result' = Null
         /\ LET i == CHOOSE k \in HookFree : \A j \in HookFree : k <= j
            IN hookCalls' = [hookCalls EXCEPT
                 ![i] = HookCall("fetch", FormData(file, type, customPrompt),
                                 TRUE)]
         /\ toast' = toast

\* lines 34-42: one tick of the interval timer invocation i started
progressTick(i, inc) ==
  IF progress >= ProgressCap
    THEN /\ progress' = ProgressCap
         /\ hookCalls' = [hookCalls EXCEPT ![i].interval = FALSE]
    ELSE /\ progress' = progress + inc
         /\ hookCalls' = hookCalls

\* catch without the finally block: isAnalyzing is left as it is
catchAndFinally_staysAnalyzing(i) ==
  /\ toast' = Toast("error",
                    "Failed to analyze video. Please check your connection.")
  /\ result' = NetworkErrorResult(hookCalls[i].formData.analysis_type)
  /\ isAnalyzing' = isAnalyzing
  /\ hookCalls' = [hookCalls EXCEPT ![i].pc = "timeout",
                                    ![i].formData = NoForm]

\* lines 61-72: catch and finally; the timer of line 34 is out of scope here
\* and stays as it is
catchAndFinally(i) ==
  /\ toast' = Toast("error",
                    "Failed to analyze video. Please check your connection.")
  /\ result' = NetworkErrorResult(hookCalls[i].formData.analysis_type)
  /\ isAnalyzing' = FALSE
  /\ hookCalls' = [hookCalls EXCEPT ![i].pc = "timeout",
                                    ![i].formData = NoForm]

\* lines 44-50: fetch resolved
fetchResolved(i) ==
  /\ progress' = ProgressDone
  /\ hookCalls' = [hookCalls EXCEPT ![i].pc = "json", ![i].interval = FALSE]

\* line 58: data.error || 'Analysis failed'
RemoteFailureMessage(data) ==
  IF Truthy(data.error) THEN data.error ELSE "Analysis failed"

\* lines 52-60 and 69-72: response.json() resolved with data
jsonResolved(i, data) ==
  /\ IF data.success = "true"
       THEN toast' = Toast("success", "Video analysis completed!")
       ELSE toast' = Toast("error", RemoteFailureMessage(data))
  /\ result' = data
  /\ isAnalyzing' = FALSE
  /\ hookCalls' = [hookCalls EXCEPT ![i].pc = "timeout",
                                    ![i].formData = NoForm]

(***************************************************************************)
(* The events of the mounted hook.                                         *)
(***************************************************************************)
CallAnalyzeVideo ==
  /\ mounted = "Hook"
  /\ \E file \in HookFiles \cup {NoFile}, type \in HookTypes,
        customPrompt \in Prompts :
       analyzeVideo(file, type, customPrompt)
  /\ UNCHANGED <<mounted, appVars, lastEvent>>

\* the interval of line 42 elapses
IntervalTick ==
  /\ mounted = "Hook"
  /\ \E i \in Slots, inc \in Increments :
       /\ hookCalls[i].interval
       /\ progressTick(i, inc)
  /\ UNCHANGED <<mounted, appVars, lastEvent, isAnalyzing, result, toast>>

\* line 44: fetch rejects (no response)
FetchRejects ==
  /\ mounted = "Hook"
  /\ \E i \in Slots :
       /\ hookCalls[i].pc = "fetch"
       /\ catchAndFinally(i)
  /\ UNCHANGED <<mounted, appVars, lastEvent, progress>>

\* line 44: fetch resolves with a response, of any status
FetchResolves ==
  /\ mounted = "Hook"
  /\ \E i \in Slots :
       /\ hookCalls[i].pc = "fetch"
       /\ fetchResolved(i)
  /\ UNCHANGED <<mounted, appVars, lastEvent, isAnalyzing, result, toast>>

\* line 52: response.json() settles
JsonSettles ==
  /\ mounted = "Hook"
  /\ \E i \in Slots, body \in HookBodies :
       /\ hookCalls[i].pc = "json"
       /\ IF body.decodable
            THEN jsonResolved(i, body.data)
            ELSE catchAndFinally(i)
  /\ UNCHANGED <<mounted, appVars, lastEvent, progress>>

\* line 71: the timeout set in finally elapses
ProgressResetFires ==
  /\ mounted = "Hook"
  /\ \E i \in Slots :
       /\ hookCalls[i].pc = "timeout"
       /\ progress' = 0
       /\ hookCalls' = [hookCalls EXCEPT ![i].pc = "idle"]
  /\ UNCHANGED <<mounted, appVars, lastEvent, isAnalyzing, result, toast>>

HookNext ==
  \/ CallAnalyzeVideo
  \/ IntervalTick
  \/ FetchRejects
  \/ FetchResolves
  \/ JsonSettles
  \/ ProgressResetFires

(***************************************************************************)
(* Specifications.                                                         *)
(***************************************************************************)
Init ==
  /\ mounted \in {"App", "Hook"}
  /\ selectedFile = NoFile
  /\ analysisType = ""
  /\ results = Null
  /\ loading = FALSE
  /\ error = NoError
  /\ analysisOptions = {}
  /\ optionsFetch = "pending"
  /\ appCalls = [i \in Slots |-> IdleCall]
  /\ isAnalyzing = FALSE
  /\ result = Null
  /\ progress = 0
  /\ toast = [level |-> "none", message |-> ""]
  /\ hookCalls = [i \in Slots |-> HookIdle]
  /\ lastEvent = [op |-> "mount"]

\* the application as rendered
Next ==
  \/ FetchOptionsResolves
  \/ FetchOptionsRejects
  \/ onDrop
  \/ removeFile
  \/ onTypeChange
  \/ ClickAnalyze
  \/ ClickReset
  \/ AnalyzeSettles
  \/ HookNext

Spec == Init /\ [][Next]_vars

\* the application as rendered, and its handlers also called directly
NextHandlers ==
  \/ FetchOptionsResolves
  \/ FetchOptionsRejects
  \/ onDrop
  \/ removeFile
  \/ onTypeChange
  \/ ClickAnalyze
  \/ ClickReset
  \/ CallHandleFileSelect
  \/ CallHandleAnalysisTypeChange
  \/ CallHandleAnalyze
  \/ CallHandleReset
  \/ AnalyzeSettles
  \/ HookNext

SpecHandlers == Init /\ [][NextHandlers]_vars

(***************************************************************************)
(* Properties.                                                             *)
(***************************************************************************)
\* C1: for one controller instance, App or hook, at most one analysis
\* request is outstanding in every reachable state: no call is issued while
\* an earlier call of the instance has not settled.
C1_AtMostOneOutstanding ==
  /\ Cardinality(AppPending) <= 1
  /\ Cardinality(HookPending) <= 1

\* The App half of C1: the Analyze button (line 106) serializes handleAnalyze.
AppAtMostOneOutstanding == Cardinality(AppPending) <= 1

\* C2: a submit whose file is absent or whose analysisType is empty issues no
\* call, leaves loading / isAnalyzing as it was, and surfaces a validation
\* message, in App.handleAnalyze and in useVideoAnalysis.analyzeVideo.
C2_InvalidSubmitIssuesNothing ==
  [][ /\ (mounted = "App" /\ CallHandleAnalyze /\ AnalyzeInputMissing)
         => /\ appCalls' = appCalls
            /\ loading' = loading
            /\ error' = "Please select a video file and analysis type"
      /\ \A file \in HookFiles \cup {NoFile}, type \in HookTypes,
            customPrompt \in Prompts :
           (/\ mounted = "Hook"
            /\ file = NoFile \/ type = ""
            /\ analyzeVideo(file, type, customPrompt))
           => /\ hookCalls' = hookCalls
              /\ isAnalyzing' = isAnalyzing
              /\ toast'.level = "error"
    ]_vars

\* a prompt that is absent, empty or made of whitespace only
BlankPrompt(customPrompt) ==
  \/ ~customPrompt.present
  \/ \A k \in 1..Len(customPrompt.text) : customPrompt.text[k] \in Whitespace

\* C3: a submit with analysisType "custom" and a custom prompt that is
\* absent, empty or whitespace-only raises a validation error, makes no
\* outbound call and leaves isAnalyzing and result as they were.
C3_BlankCustomPromptRejected ==
  [][ \A file \in HookFiles \cup {NoFile}, customPrompt \in Prompts :
        (/\ mounted = "Hook"
         /\ BlankPrompt(customPrompt)
         /\ analyzeVideo(file, "custom", customPrompt))
        => /\ hookCalls' = hookCalls
           /\ isAnalyzing' = isAnalyzing
           /\ result' = result
           /\ progress' = progress
           /\ toast'.level = "error"
           /\ toast'.message \in {"Please select a video file first",
                                  "Please enter a custom prompt for analysis"}
    ]_vars

\* C3 witness: the custom-prompt validation has fired while the result of an
\* earlier request was on display, and nothing is in flight.
C3_Witness ==
  /\ mounted = "Hook"
  /\ toast = Toast("error", "Please enter a custom prompt for analysis")
  /\ result # Null
  /\ ~isAnalyzing
  /\ HookPending = {}

\* C4: the interval timer an analyzeVideo invocation started is set only
\* while the outbound call of that invocation has not settled, whatever the
\* outcome of the call.
C4_TimerCancelledOnSettle ==
  \A i \in Slots : hookCalls[i].interval => i \in HookPending

\* the outcomes of an axios call that carry no interpretable answer
TransportFailures ==
  {o \in AxiosOutcomes : o.kind = "network" \/ (o.kind = "http" /\ o.detail = Absent)}

\* C5: an outbound call that fails at transport level ends its request once
\* and for good (the invocation leaves the pending set, no other invocation
\* is started or changed), leaves loading / isAnalyzing false, and surfaces
\* the generic fallback: in the hook the synthetic result {success: false,
\* error: network-error text, analysis_type: the submitted type}; in App the
\* generic failure message with no result stored.
C5_TransportFailureIsTerminal ==
  [][ /\ \A i \in Slots :
           (/\ mounted = "Hook"
            /\ i \in HookPending
            /\ catchAndFinally(i)
            /\ progress' = progress)
           => /\ isAnalyzing' = FALSE
              /\ result' = [success |-> "false",
                            error |-> "Network error occurred",
                            analysis_type |->
                              hookCalls[i].formData.analysis_type]
              /\ toast'.level = "error"
              /\ i \notin HookPending'
              /\ \A j \in Slots \ {i} : hookCalls'[j] = hookCalls[j]
      /\ \A i \in Slots, outcome \in TransportFailures :
           (/\ mounted = "App"
            /\ i \in AppPending
            /\ handleAnalyzeSettled(i, outcome)
            /\ UNCHANGED <<selectedFile, analysisType>>)
           => /\ loading' = FALSE
              /\ error' = "Failed to analyze video"
              /\ results' = Null
              /\ i \notin AppPending'
              /\ \A j \in Slots \ {i} : appCalls'[j] = appCalls[j]
    ]_vars

\* C5 witness: the hook holds the synthetic result of a failed call for a
\* submitted type, and isAnalyzing is false again.
C5_Witness ==
  /\ mounted = "Hook"
  /\ result = NetworkErrorResult("detailed_summary")
  /\ toast = Toast("error",
                   "Failed to analyze video. Please check your connection.")
  /\ ~isAnalyzing

\* the App case of C5: the call of the selected file failed without a
\* response, the generic message is shown and no result is stored.
C5_WitnessApp ==
  /\ mounted = "App"
  /\ lastEvent.op = "settled"
  /\ lastEvent.outcome.kind = "network"
  /\ error = "Failed to analyze video"
  /\ results = Null
  /\ ~loading

\* C6: when the backend answers with a non-success status and a body that
\* carries a detail, the message shown to the user is that detail, on the
\* App path (analyzeVideoFile) and on the hook path (analyzeVideo).
C6_DetailSurfacedVerbatim ==
  [][ /\ \A i \in Slots, d \in Details :
           (/\ mounted = "App"
            /\ i \in AppPending
            /\ handleAnalyzeSettled(i, [kind |-> "http", detail |-> d]))
           => error' = d
      /\ \A i \in Slots, d \in Details :
           (/\ mounted = "Hook"
            /\ hookCalls[i].pc = "json"
            /\ jsonResolved(i, Data(Absent, Absent, d, Absent)))
           => toast' = Toast("error", d)
    ]_vars

\* The App half of C6.
AppDetailSurfacedVerbatim ==
  (mounted = "App" /\ lastEvent.op = "settled"
     /\ lastEvent.outcome.kind = "http" /\ lastEvent.outcome.detail # Absent)
  => error = lastEvent.outcome.detail

\* C7: handleReset, called in any state, leaves file, type, result and error
\* cleared and the controller idle (loading false); and the response of a
\* request that was pending at the reset, arriving next, changes neither
\* results nor error.
C7_ResetClearsAndDropsPending ==
  [][ /\ (mounted = "App" /\ CallHandleReset)
         => /\ selectedFile' = NoFile
            /\ analysisType' = ""
            /\ results' = Null
            /\ error' = NoError
            /\ loading' = FALSE
      /\ (/\ mounted = "App"
          /\ lastEvent.op = "handleReset"
          /\ lastEvent.pending
          /\ AnalyzeSettles)
         => UNCHANGED <<results, error>>
    ]_vars

\* The second half of C7 alone: a response that arrives right after a reset
\* issued while its request was pending is dropped.
ResetDropsPending ==
  [][ (/\ mounted = "App"
       /\ lastEvent.op = "handleReset"
       /\ lastEvent.pending
       /\ AnalyzeSettles)
      => UNCHANGED <<results, error>>
    ]_vars

\* C8: after a call of handleFileSelect(file) the selected file is file,
\* whatever was selected before, and no result and no error is left; so
\* after select(null) file, result and error are all absent.
C8_SelectReplacesAndClears ==
  lastEvent.op = "handleFileSelect"
  => /\ selectedFile = lastEvent.file
     /\ results = Null
     /\ error = NoError

\* C8 witness: select(null) has just removed a selected file while a result
\* or an error was on display.
C8_Witness ==
  /\ lastEvent.op = "handleFileSelect"
  /\ lastEvent.file = NoFile
  /\ lastEvent.replaced \in Files
  /\ lastEvent.stale
  /\ selectedFile = NoFile /\ results = Null /\ error = NoError

\* a file has just replaced another selected file directly (reachable when
\* handleFileSelect is called directly: the drop zone is hidden while a file
\* is selected)
C8_WitnessReplace ==
  /\ lastEvent.op = "handleFileSelect"
  /\ lastEvent.file \in Files
  /\ lastEvent.replaced \in Files \ {lastEvent.file}
  /\ lastEvent.stale
  /\ selectedFile = lastEvent.file /\ results = Null /\ error = NoError

\* C9: in App a stored result was produced by a request for the file that is
\* selected now.
C9_ResultBelongsToSelectedFile ==
  (mounted = "App" /\ results # Null) => results.result.file = selectedFile

\* C10: in App, with Analyze and Reset clicked only while enabled, a stored
\* result and an error message never coexist.
C10_ResultAndErrorExclusive ==
  ~(results # Null /\ error # NoError)

\* C10 witness: an analysis request has failed: its error is shown and no
\* result is stored.
C10_Witness ==
  /\ mounted = "App"
  /\ lastEvent.op = "settled"
  /\ lastEvent.outcome.kind # "ok"
  /\ error # NoError
  /\ results = Null
  /\ ~loading

\* the other side of C10: a result is stored and no error is shown
C10_WitnessResult ==
  /\ mounted = "App" /\ results # Null /\ error = NoError /\ ~loading

\* C11: while a request of the hook is in flight (isAnalyzing true), the
\* simulated progress starts at 0 when the request is issued, and a tick of
\* the request's timer never lowers it and never takes it above 90, whatever
\* the increment.  Stated for the ticks of a request that is the only one
\* pending and that start from a value within 0..90.
C11_ProgressMonotoneWithinCap ==
  [][ /\ \A file \in HookFiles, type \in HookTypes, customPrompt \in Prompts :
           (/\ mounted = "Hook"
            /\ analyzeVideo(file, type, customPrompt)
            /\ hookCalls' # hookCalls)
           => progress' = 0
      /\ \A i \in Slots, inc \in Increments :
           (/\ mounted = "Hook"
            /\ isAnalyzing
            /\ HookPending = {i}
            /\ hookCalls[i].interval
            /\ progress \in 0..ProgressCap
            /\ progressTick(i, inc)
            /\ UNCHANGED <<isAnalyzing, result, toast>>)
           => /\ progress' >= progress
              /\ progress' <= ProgressCap
    ]_vars

\* The first two parts of C11 alone: progress starts at 0 and no tick from a
\* value within 0..90 lowers it.
ProgressStartsAtZeroAndTicksUp ==
  [][ /\ \A file \in HookFiles, type \in HookTypes, customPrompt \in Prompts :
           (/\ mounted = "Hook"
            /\ analyzeVideo(file, type, customPrompt)
            /\ hookCalls' # hookCalls)
           => progress' = 0
      /\ \A i \in Slots, inc \in Increments :
           (/\ mounted = "Hook"
            /\ isAnalyzing
            /\ HookPending = {i}
            /\ hookCalls[i].interval
            /\ progress \in 0..ProgressCap
            /\ progressTick(i, inc)
            /\ UNCHANGED <<isAnalyzing, result, toast>>)
           => progress' >= progress
    ]_vars

====
